---- MODULE Spec2Model ----
(***************************************************************************)
(* Model of src/components/SEOAnalysisForm.tsx: the form state, the change *)
(* handler, and the asynchronous submit handler with its two suspension    *)
(* points (await fetch, await response.json()).                            *)
(*                                                                         *)
(* Optional values (undefined / null / a missing JSON key) are sequences   *)
(* of length 0 or 1.  Text typed into the date_range input is a sequence   *)
(* of one-character strings so that parseInt can be computed on it.        *)
(***************************************************************************)
EXTENDS Integers, Sequences, FiniteSets

\* formData, isLoading, results, error: the four useState cells.
\* dateRangeValue: e.target.value of the latest change event on date_range.
\* calls: the handleSubmit invocations suspended at an await, each with its
\*   position (pc "fetch" or "json"), the request body it sent and, once
\*   fetch has resolved, the response it holds.
\* lastResponse: the response held by the invocation that ended last, kept
\*   until the next request is issued.
VARIABLES formData, dateRangeValue, isLoading, results, error, calls,
          lastResponse

vars == <<formData, dateRangeValue, isLoading, results, error, calls,
          lastResponse>>

None == << >>
Some(x) == <<x>>

\* ---------------------------------------------------------------- bounds
MaxLen == 3

\* ------------------------------------------------------------- constants
DefaultDateRange == 30

ValidationMessage == "Please fill in all required fields"
AnalysisFailed == "Analysis failed"
GenericFallback == "An error occurred during analysis"

\* ------------------------------------------------------- input alphabets
Urls == {"", "https://example.com/page"}
RootDomains == {"", "example.com"}
AccountIdentifiers == {"", "my-website"}
\* two of the three options of the language select
Languages == {"en", "fr"}
Dates == {"", "2024-01-01"}

\* characters a change event on date_range may carry in e.target.value
\* (no "x": the hexadecimal prefix of parseInt is outside the alphabet)
Alphabet == {"0", "4", "a", "-"}
Texts(n) == UNION {[1..k -> Alphabet] : k \in 0..n}
\* the date_range texts used while submissions are explored
FewTexts == {<<"4", "0", "0">>, <<"a">>}

FieldNames == {"url", "root_domain", "account_identifier", "language",
               "date_range", "start_date", "end_date"}

\* ----------------------------------------------------- parseInt(value)
IsDigit(c) == c \in {"0", "1", "2", "3", "4", "5", "6", "7", "8", "9"}
DigitVal(c) ==
  CASE c = "0" -> 0 [] c = "1" -> 1 [] c = "2" -> 2 [] c = "3" -> 3
    [] c = "4" -> 4 [] c = "5" -> 5 [] c = "6" -> 6 [] c = "7" -> 7
    [] c = "8" -> 8 [] c = "9" -> 9

RECURSIVE SkipWhite(_)
SkipWhite(s) ==
  IF s # << >> /\ Head(s) = " " THEN SkipWhite(Tail(s)) ELSE s

RECURSIVE LeadingDigits(_)
LeadingDigits(s) ==
  IF s # << >> /\ IsDigit(Head(s)) THEN <<Head(s)>> \o LeadingDigits(Tail(s))
  ELSE << >>

RECURSIVE DecimalValue(_)
DecimalValue(d) ==
  IF d = << >> THEN 0
  ELSE 10 * DecimalValue(SubSeq(d, 1, Len(d) - 1)) + DigitVal(d[Len(d)])

\* ECMAScript parseInt with no radix on a decimal text: leading white space
\* is skipped, one sign is read, the longest digit prefix is converted and
\* the rest is ignored; with no digit the result is NaN.
parseInt(value) ==
  LET t == SkipWhite(value)
      signed == t # << >> /\ Head(t) \in {"-", "+"}
      sign == IF t # << >> /\ Head(t) = "-" THEN -1 ELSE 1
      d == LeadingDigits(IF signed THEN Tail(t) ELSE t)
  IN IF d = << >> THEN [nan |-> TRUE, val |-> 0]
     ELSE [nan |-> FALSE, val |-> sign * DecimalValue(d)]

\* parseInt(value) || 30 : NaN and 0 are the falsy numbers
CoerceDateRange_Clamped(value) ==
  LET p == parseInt(value)
  IN IF p.nan \/ p.val = 0 THEN DefaultDateRange
     ELSE IF p.val > 365 THEN 365 ELSE p.val

CoerceDateRange(value) ==
  LET p == parseInt(value)
  IN IF p.nan \/ p.val = 0 THEN DefaultDateRange ELSE p.val

\* ------------------------------------------------------------ form state
InitialFormData ==
  [url |-> "", root_domain |-> "", account_identifier |-> "",
   language |-> "en", date_range |-> DefaultDateRange,
   start_date |-> "", end_date |-> ""]

\* JSON.stringify(formData): the members in insertion order
Stringify(fd) ==
  << <<"url", fd.url>>, <<"root_domain", fd.root_domain>>,
     <<"account_identifier", fd.account_identifier>>,
     <<"language", fd.language>>, <<"date_range", fd.date_range>>,
     <<"start_date", fd.start_date>>, <<"end_date", fd.end_date>> >>

Init ==
  /\ formData = InitialFormData
  /\ dateRangeValue = <<"3", "0">>
  /\ isLoading = FALSE
  /\ results = None
  /\ error = ""
  /\ calls = << >>
  /\ lastResponse = None

\* ------------------------------------------------------ handleInputChange
TextValues(name) ==
  CASE name = "url" -> Urls
    [] name = "root_domain" -> RootDomains
    [] name = "account_identifier" -> AccountIdentifiers
    [] name = "language" -> Languages
    [] name = "start_date" -> Dates
    [] name = "end_date" -> Dates

HandleInputChange(texts) ==
  /\ \E name \in FieldNames :
       IF name = "date_range"
       THEN \E value \in texts :
              /\ formData' = [formData EXCEPT !.date_range = CoerceDateRange(value)]
              /\ dateRangeValue' = value
       ELSE \E value \in TextValues(name) :
              /\ formData' = [formData EXCEPT ![name] = value]
              /\ dateRangeValue' = dateRangeValue
  /\ UNCHANGED <<isLoading, results, error, calls, lastResponse>>

\* --------------------------------------------------- the analysis service
Payloads ==
  {[url |-> "https://example.com/page", word_count |-> 512, language |-> "en"],
   [url |-> "https://other.org/", word_count |-> 0, language |-> "fr"]}

ServerErrors == {None, Some(""), Some("Quota exceeded")}
SuccessFlags == {"true", "false", "absent"}
SyntaxErrorMessages ==
  {"Unexpected token < in JSON at position 0", "Unexpected end of JSON input"}

\* what response.json() will settle with: a rejection with a SyntaxError,
\* the value null, or an ApiResponse-shaped object
Bodies ==
  [kind : {"syntaxError"}, message : SyntaxErrorMessages,
   success : {"absent"}, data : {None}, error : {None}]
  \cup
  [kind : {"null"}, message : {""},
   success : {"absent"}, data : {None}, error : {None}]
  \cup
  [kind : {"object"}, message : {""},
   success : SuccessFlags, data : {None} \cup {Some(p) : p \in Payloads},
   error : ServerErrors]

Responses == [ok : BOOLEAN, body : Bodies]

\* values a rejected fetch carries: a TypeError, or (a stubbed fetch) a
\* value that is not an Error
FetchRejections ==
  {[isError |-> TRUE, message |-> "Failed to fetch"],
   [isError |-> FALSE, message |-> ""]}

TypeErrorOf(prop) ==
  [isError |-> TRUE,
   message |-> IF prop = "error"
               THEN "Cannot read properties of null (reading 'error')"
               ELSE "Cannot read properties of null (reading 'success')"]

\* ------------------------------------------------------------ handleSubmit
\* !formData.url || !formData.root_domain || !formData.account_identifier
MissingRequired_UrlOnly(fd) == fd.url = ""

MissingRequired(fd) ==
  fd.url = "" \/ fd.root_domain = "" \/ fd.account_identifier = ""

\* disabled={isLoading} on the button that carries onClick={handleSubmit}
SubmitEnabled_Always == TRUE

SubmitEnabled == ~isLoading

\* body: JSON.stringify(formData), evaluated when fetch is called
RequestBody_Stale(fd) == Stringify(InitialFormData)

RequestBody(fd) == Stringify(fd)

HandleSubmit ==
  /\ SubmitEnabled
  /\ IF MissingRequired(formData)
     THEN /\ error' = ValidationMessage
          /\ UNCHANGED <<isLoading, results, calls, lastResponse>>
     ELSE /\ isLoading' = TRUE
          /\ error' = ""
          /\ results' = None
          /\ calls' = Append(calls, [pc |-> "fetch",
                                     body |-> RequestBody(formData),
                                     response |-> None])
          /\ lastResponse' = None
  /\ UNCHANGED <<formData, dateRangeValue>>

\* data.error || 'Analysis failed'
ServerMessage_Ignored(body) == AnalysisFailed

ServerMessage(body) ==
  IF body.error # None /\ body.error[1] # "" THEN body.error[1]
  ELSE AnalysisFailed

\* err instanceof Error ? err.message : 'An error occurred during analysis'
CatchMessage(err) ==
  IF err.isError THEN err.message ELSE GenericFallback

\* the try block from `await response.json()` on: either a payload handed to
\* setResults, or the value thrown
TryBlock_NoOkCheck(response) ==
  LET body == response.body
  IN IF body.kind = "syntaxError"
     THEN [threw |-> TRUE, data |-> None,
           err |-> [isError |-> TRUE, message |-> body.message]]
     ELSE IF body.kind = "null"
     THEN [threw |-> TRUE, data |-> None, err |-> TypeErrorOf("success")]
     ELSE IF body.success = "true" /\ body.data # None
     THEN [threw |-> FALSE, data |-> body.data,
           err |-> [isError |-> FALSE, message |-> ""]]
     ELSE [threw |-> TRUE, data |-> None,
           err |-> [isError |-> TRUE, message |-> ServerMessage(body)]]

TryBlock(response) ==
  LET body == response.body
  IN IF body.kind = "syntaxError"
     THEN [threw |-> TRUE, data |-> None,
           err |-> [isError |-> TRUE, message |-> body.message]]
     ELSE IF ~response.ok
     THEN [threw |-> TRUE, data |-> None,
           err |-> IF body.kind = "null" THEN TypeErrorOf("error")
                   ELSE [isError |-> TRUE, message |-> ServerMessage(body)]]
     ELSE IF body.kind = "null"
     THEN [threw |-> TRUE, data |-> None, err |-> TypeErrorOf("success")]
     ELSE IF body.success = "true" /\ body.data # None
     THEN [threw |-> FALSE, data |-> body.data,
           err |-> [isError |-> FALSE, message |-> ""]]
     ELSE [threw |-> TRUE, data |-> None,
           err |-> [isError |-> TRUE, message |-> ServerMessage(body)]]

\* finally { setIsLoading(false) }
LoadingAfterSettle_OnSuccessOnly(threw) == threw

LoadingAfterSettle(threw) == FALSE

RemoveAt(s, i) == SubSeq(s, 1, i - 1) \o SubSeq(s, i + 1, Len(s))

\* the promise returned by fetch settles
FetchSettles ==
  \E i \in 1..Len(calls) :
    /\ calls[i].pc = "fetch"
    /\ \/ \E response \in Responses :
            /\ calls' = [calls EXCEPT ![i] = [@ EXCEPT !.pc = "json",
                                                !.response = Some(response)]]
            /\ UNCHANGED <<isLoading, results, error, lastResponse>>
       \/ \E err \in FetchRejections :
            /\ error' = CatchMessage(err)
            /\ isLoading' = LoadingAfterSettle(TRUE)
            /\ calls' = RemoveAt(calls, i)
            /\ UNCHANGED <<results, lastResponse>>
    /\ UNCHANGED <<formData, dateRangeValue>>

\* the promise returned by response.json() settles; the handler runs to its end
JsonSettles ==
  \E i \in 1..Len(calls) :
    /\ calls[i].pc = "json"
    /\ LET out == TryBlock(calls[i].response[1])
       IN /\ IF out.threw
             THEN /\ error' = CatchMessage(out.err)
                  /\ UNCHANGED results
             ELSE /\ results' = out.data
                  /\ UNCHANGED error
          /\ isLoading' = LoadingAfterSettle(out.threw)
    /\ lastResponse' = calls[i].response
    /\ calls' = RemoveAt(calls, i)
    /\ UNCHANGED <<formData, dateRangeValue>>

\* what the result region shows: {results.url} {results.word_count} {results.language}
RenderedSummary ==
  IF results = None THEN None
  ELSE Some(<<results[1].url, results[1].word_count, results[1].language>>)

\* ---------------------------------------------------------- specifications
Next ==
  \/ HandleInputChange(FewTexts)
  \/ HandleSubmit
  \/ FetchSettles
  \/ JsonSettles

Spec == Init /\ [][Next]_vars

\* the change handler alone, over every text of up to MaxLen characters
NextDR == HandleInputChange(Texts(MaxLen))

SpecDR == Init /\ [][NextDR]_vars

\* ------------------------------------------------------------------ claims
\* a step in which a handleSubmit invocation awaiting response.json() ends
Settling == Len(calls) = 1 /\ calls[1].pc = "json" /\ calls' = << >>
\* a step in which a handleSubmit invocation ends at a rejected fetch
Rejecting == Len(calls) = 1 /\ calls[1].pc = "fetch" /\ calls' = << >>
Received == calls[1].response[1]

AnyRequiredEmpty ==
  formData.url = "" \/ formData.root_domain = "" \/ formData.account_identifier = ""

\* C1: a trigger of handleSubmit in a form state with url, root_domain or
\* account_identifier empty issues no request, sets the error to the fixed
\* validation message and does not enter Loading.
C1_ValidationBlocksRequest ==
  [][(HandleSubmit /\ AnyRequiredEmpty)
       => (calls' = calls /\ error' = ValidationMessage /\ isLoading' = FALSE)]_vars

C1_Witness ==
  /\ AnyRequiredEmpty
  /\ formData.url # ""
  /\ error = ValidationMessage
  /\ calls = << >>
  /\ ~isLoading

\* C2: at most one request is in flight at any time, and while Loading no
\* step issues a further request.
C2_SingleFlight ==
  /\ [](Len(calls) <= 1)
  /\ [][isLoading => Len(calls') <= Len(calls)]_vars

C2_Witness ==
  /\ isLoading
  /\ Len(calls) = 1
  /\ calls[1].pc = "json"

Idle == ~isLoading /\ results = None /\ error = ""
Loading == isLoading
Success == results # None
Failure == error # ""

\* C3: in every reachable state exactly one of Idle, Loading, Success and
\* Failure holds.
C3_ExactlyOneOutcome ==
  /\ Idle \/ Loading \/ Success \/ Failure
  /\ ~(Idle /\ Loading) /\ ~(Idle /\ Success) /\ ~(Idle /\ Failure)
  /\ ~(Loading /\ Success) /\ ~(Loading /\ Failure)
  /\ ~(Success /\ Failure)

\* C4: when response.json() rejects, the submission ends in Failure with a
\* fixed fallback message that does not depend on the parse failure.
C4_ParseFailureShowsFallback ==
  [][(Settling /\ Received.body.kind = "syntaxError")
       => (error' \in {GenericFallback, AnalysisFailed}
           /\ results' = None /\ ~isLoading')]_vars

SuppliedError(body) ==
  body.kind = "object" /\ body.error # None /\ body.error[1] # ""

\* C5: a response with a non-success status, or a parsed body with success
\* false, ends in Failure showing the server's error string when there is
\* one and 'Analysis failed' otherwise; results stays null.
C5_ServerFailureMessage ==
  [][(Settling /\ (~Received.ok
                   \/ (Received.body.kind = "object"
                       /\ Received.body.success = "false")))
       => (/\ error' = IF SuppliedError(Received.body)
                       THEN Received.body.error[1] ELSE AnalysisFailed
           /\ results' = None
           /\ ~isLoading')]_vars

SuccessCase(r) ==
  r.ok /\ r.body.kind = "object" /\ r.body.success = "true" /\ r.body.data # None

\* C6: a submission ends in Success exactly when the response is ok, the
\* body parsed, success is true and data is present; results is then that
\* payload unchanged, the summary shows its url, word_count and language,
\* error is empty and isLoading is false.
C6_SuccessExactlyWhen ==
  [][/\ Settling => ((results' # None) <=> SuccessCase(Received))
     /\ Rejecting => results' = None
     /\ (Settling /\ SuccessCase(Received))
          => (/\ results' = Received.body.data
              /\ RenderedSummary' = Some(<<Received.body.data[1].url,
                                           Received.body.data[1].word_count,
                                           Received.body.data[1].language>>)
              /\ error' = ""
              /\ ~isLoading')]_vars

C6_Witness ==
  /\ lastResponse # None
  /\ SuccessCase(lastResponse[1])
  /\ results = lastResponse[1].body.data
  /\ results[1].word_count = 512
  /\ error = ""
  /\ ~isLoading

\* C7: whenever a request settles (rejected fetch, unparsable body, failure
\* response or success response) isLoading becomes false and the trigger
\* is enabled again.
C7_LoadingClears ==
  [][(Settling \/ Rejecting) => (~isLoading' /\ SubmitEnabled')]_vars

C7_Witness ==
  /\ lastResponse # None
  /\ lastResponse[1].body.kind = "syntaxError"
  /\ calls = << >>
  /\ ~isLoading

\* C8: a trigger that passes validation enters Loading with result and error
\* cleared and issues exactly one request whose body is the form state at
\* that moment; no later step changes that body or issues another request
\* for it.
C8_OneRequestPerTrigger ==
  [][/\ (HandleSubmit /\ ~AnyRequiredEmpty)
          => (/\ isLoading' /\ error' = "" /\ results' = None
              /\ calls' = Append(calls, [pc |-> "fetch",
                                         body |-> Stringify(formData),
                                         response |-> None]))
     /\ ~HandleSubmit
          => (/\ Len(calls') <= Len(calls)
              /\ \A i \in 1..Len(calls') : calls'[i].body = calls[i].body)]_vars

C8_Witness ==
  /\ Len(calls) = 1
  /\ calls[1].pc = "fetch"
  /\ calls[1].body # Stringify(formData)
  /\ isLoading /\ results = None /\ error = ""

\* C9 as stated: date_range holds 30 when parseInt reads no number from the
\* text of the change event and the parsed integer otherwise.
C9_StoresParsedOr30 ==
  LET p == parseInt(dateRangeValue)
  IN /\ p.nan => formData.date_range = 30
     /\ ~p.nan => formData.date_range = p.val
     /\ formData.date_range \in Int

\* C9 amended: date_range holds 30 when parseInt reads no number from the
\* text or reads 0, and the parsed integer otherwise, with no upper bound
\* (400 is stored as 400); it is always an integer.
C9_StoresNonZeroParsedOr30 ==
  LET p == parseInt(dateRangeValue)
  IN /\ (p.nan \/ p.val = 0) => formData.date_range = 30
     /\ (~p.nan /\ p.val # 0) => formData.date_range = p.val
     /\ dateRangeValue = <<"4", "0", "0">> => formData.date_range = 400
     /\ formData.date_range \in Int

C9_Witness ==
  /\ dateRangeValue = <<"4", "0", "0">>
  /\ formData.date_range = 400

NoPayloadCase(r) ==
  r.ok /\ r.body.kind = "object" /\ r.body.success = "true" /\ r.body.data = None

====
